---------------------------- MODULE Spec2Model ----------------------------
(*************************************************************************)
(* Valorant Player Statistics Tracker (src/app.py, src/create_admin.py). *)
(*                                                                       *)
(* Three specifications over one set of variables:                       *)
(*   SpecAuth   registration (check, then insert), admin creation,       *)
(*              login and logout of concurrent browser sessions;         *)
(*   Spec       the match form and the delete form of a logged-in user;  *)
(*   SpecBoard  the leaderboard pipeline: aggregate_player_stats and     *)
(*              rank_players applied to a fetched list of match rows.    *)
(*************************************************************************)
EXTENDS Integers, Sequences, FiniteSets, TLC

VARIABLES
    users,          \* table users, in insertion order
    next_user_id,   \* the serial behind users.id
    matches,        \* table matches, in insertion order
    next_match_id,  \* the serial behind matches.id
    session,        \* per browser session: st.session_state.user and the
                    \* position of a running Register handler
    last,           \* what the last handler run did and showed
    data,           \* leaderboard: the rows handed to aggregate_player_stats
    aggregated,     \* leaderboard: its result
    ranked,         \* leaderboard: the result of rank_players
    board_pc        \* leaderboard: "fetched", "aggregated" or "ranked"

vars == <<users, next_user_id, matches, next_match_id, session, last,
          data, aggregated, ranked, board_pc>>

-----------------------------------------------------------------------------
(* Bounds of the model *)

\* at most this many rows are ever inserted into users
MaxUsers == 2
\* at most this many rows are ever inserted into matches
MaxMatches == 2
\* at most this many rows are handed to the leaderboard
MaxRecords == 3

Sessions == {"s1", "s2"}

\* usernames typed into the forms; "1" and "2" read as numbers
Usernames == {"1", "2", "root"}
\* what the operator of create_admin.py types, surrounding blanks included
AdminTyped == {" root ", "1"}
\* and the password the operator types
AdminTypedPasswords == {" pw "}
Passwords == {"pw", "pw2"}
Salts == {1, 2}

-----------------------------------------------------------------------------
(* Values *)

NoHash == [salt |-> 0, digest |-> <<>>]
\* Python's None where a user row is expected
NoUser == [id |-> 0, username |-> "", password_hash |-> NoHash, role |-> "none"]

Range(f) == {f[i] : i \in DOMAIN f}

\* bcrypt.hashpw(password, salt): a one-way digest bound to the salt, taken to
\* be free of collisions
hashpw(password, salt) == [salt |-> salt, digest |-> <<salt, password>>]

\* bcrypt.checkpw: rehash the candidate under the stored salt and compare
verify_password(password, password_hash) ==
    hashpw(password, password_hash.salt) = password_hash

\* str.strip() on what create_admin.py reads
Strip(s) ==
    CASE s = " root " -> "root"
      [] s = " pw "   -> "pw"
      [] OTHER        -> s

-----------------------------------------------------------------------------
(* Credential store *)

\* SELECT * FROM users WHERE username = %s; fetchone(): the first such row
\* or None
get_user_none(table, username) == NoUser
get_user(table, username) ==
    IF \E i \in DOMAIN table : table[i].username = username
    THEN table[CHOOSE i \in DOMAIN table :
                 /\ table[i].username = username
                 /\ \A j \in DOMAIN table : table[j].username = username => i <= j]
    ELSE NoUser

\* the schema's users.username UNIQUE: an INSERT of a present username
\* raises instead of adding a row
UniqueViolation(table, username) ==
    \E i \in DOMAIN table : table[i].username = username

\* INSERT INTO users (username, password_hash, role): the table after a
\* successful insert
InsertUser(table, id, username, password_hash, role) ==
    Append(table, [id |-> id, username |-> username,
                   password_hash |-> password_hash, role |-> role])

\* login(username, password)
login_leaky(table, username, password) ==
    LET user == get_user(table, username)
    IN  IF user # NoUser THEN user ELSE NoUser
login(table, username, password) ==
    LET user == get_user(table, username)
    IN  IF user # NoUser /\ verify_password(password, user.password_hash)
        THEN user
        ELSE NoUser

-----------------------------------------------------------------------------
(* Login / register screen *)

Idle(s) == session[s].pc = "idle"

\* the Register button up to and including the get_user check
RegisterCheck(s) ==
    /\ Idle(s)
    /\ session[s].user = NoUser
    /\ \E new_user \in Usernames, new_pass \in Passwords, confirm_pass \in Passwords :
         LET msg == IF new_pass # confirm_pass THEN "Passwords do not match."
                    ELSE IF get_user(users, new_user) # NoUser
                         THEN "Username already exists."
                         ELSE ""
         IN  /\ session' = [session EXCEPT ![s] =
                   IF msg = ""
                   THEN [@ EXCEPT !.pc = "insert",
                                  !.reg = [username |-> new_user, password |-> new_pass]]
                   ELSE @]
             /\ last' = [op |-> "register", s |-> s, username |-> new_user,
                         msg |-> msg]
    /\ UNCHANGED <<users, next_user_id, matches, next_match_id,
                   data, aggregated, ranked, board_pc>>

\* register_user(new_user, new_pass): hash, INSERT inside try/except
RegisterInsert(s) ==
    /\ session[s].pc = "insert"
    /\ \E salt \in Salts :
         LET reg == session[s].reg
             hashed == hashpw(reg.password, salt)
         IN  IF UniqueViolation(users, reg.username)
             THEN /\ UNCHANGED <<users, next_user_id>>
                  /\ last' = [op |-> "register_user", s |-> s,
                              username |-> reg.username,
                              msg |-> "Error registering user"]
             ELSE /\ next_user_id <= MaxUsers
                  /\ users' = InsertUser(users, next_user_id, reg.username,
                                         hashed, "player")
                  /\ next_user_id' = next_user_id + 1
                  /\ last' = [op |-> "register_user", s |-> s,
                              username |-> reg.username,
                              msg |-> "Registration successful"]
    /\ session' = [session EXCEPT ![s] = [@ EXCEPT !.pc = "idle", !.reg = NoUser]]
    /\ UNCHANGED <<matches, next_match_id, data, aggregated, ranked, board_pc>>

\* create_admin.py, run by an operator
CreateAdmin ==
    /\ \E typed_user \in AdminTyped, typed_pass \in AdminTypedPasswords, salt \in Salts :
         LET username == Strip(typed_user)
             hashed == hashpw(Strip(typed_pass), salt)
         IN  IF UniqueViolation(users, username)
             THEN /\ UNCHANGED <<users, next_user_id>>
                  /\ last' = [op |-> "create_admin", username |-> username,
                              msg |-> "raised"]
             ELSE /\ next_user_id <= MaxUsers
                  /\ users' = InsertUser(users, next_user_id, username,
                                         hashed, "admin")
                  /\ next_user_id' = next_user_id + 1
                  /\ last' = [op |-> "create_admin", username |-> username,
                              msg |-> "created"]
    /\ UNCHANGED <<matches, next_match_id, session, data, aggregated, ranked, board_pc>>

\* the Login button
Login(s) ==
    /\ Idle(s)
    /\ session[s].user = NoUser
    /\ \E username \in Usernames, password \in Passwords :
         LET user == login(users, username, password)
         IN  /\ session' = [session EXCEPT ![s] =
                   IF user # NoUser THEN [@ EXCEPT !.user = user] ELSE @]
             /\ last' = [op |-> "login", s |-> s, username |-> username,
                         password |-> password, result |-> user,
                         msg |-> IF user # NoUser THEN "Welcome"
                                 ELSE "Invalid username or password."]
    /\ UNCHANGED <<users, next_user_id, matches, next_match_id,
                   data, aggregated, ranked, board_pc>>

\* the sidebar's Logout button
Logout(s) ==
    /\ Idle(s)
    /\ session[s].user # NoUser
    /\ session' = [session EXCEPT ![s] = [@ EXCEPT !.user = NoUser]]
    /\ last' = [op |-> "logout", s |-> s]
    /\ UNCHANGED <<users, next_user_id, matches, next_match_id,
                   data, aggregated, ranked, board_pc>>

NoSession == [user |-> NoUser, pc |-> "idle", reg |-> NoUser]

InitAuth ==
    /\ users = <<>>
    /\ next_user_id = 1
    /\ matches = <<>>
    /\ next_match_id = 1
    /\ session = [s \in Sessions |-> NoSession]
    /\ last = [op |-> "start"]
    /\ data = <<>>
    /\ aggregated = <<>>
    /\ ranked = <<>>
    /\ board_pc = "idle"

NextAuth ==
    \/ \E s \in Sessions : RegisterCheck(s)
    \/ \E s \in Sessions : RegisterInsert(s)
    \/ CreateAdmin
    \/ \E s \in Sessions : Login(s)
    \/ \E s \in Sessions : Logout(s)

SpecAuth == InitAuth /\ [][NextAuth]_vars

-----------------------------------------------------------------------------
(* Match repository *)

\* the values of one filled-in match form, besides the player name
StatLines ==
    { [win_loss |-> "Win", map_name |-> "Bind", agent |-> "Jett",
       current_rank |-> "Gold 1", acs |-> 300, econ_rating |-> 60,
       kills |-> 20, deaths |-> 0, assists |-> 3],
      [win_loss |-> "Loss", map_name |-> "Split", agent |-> "Sage",
       current_rank |-> "Iron 1", acs |-> 0, econ_rating |-> 0,
       kills |-> 0, deaths |-> 0, assists |-> 0],
      [win_loss |-> "Loss", map_name |-> "Haven", agent |-> "Omen",
       current_rank |-> "Silver 2", acs |-> 250, econ_rating |-> 45,
       kills |-> 10, deaths |-> 5, assists |-> 7] }

\* what an admin types into the Player Name field
AdminNames == {"", "1", "2"}

MatchRow(id, user_id, player_name, line) ==
    [id |-> id, user_id |-> user_id, player_name |-> player_name,
     win_loss |-> line.win_loss, map_name |-> line.map_name,
     agent |-> line.agent, current_rank |-> line.current_rank,
     acs |-> line.acs, econ_rating |-> line.econ_rating,
     kills |-> line.kills, deaths |-> line.deaths, assists |-> line.assists]

\* add_match: INSERT INTO matches (...), the id drawn from the serial
add_match(table, id, user_id, player_name, line) ==
    Append(table, MatchRow(id, user_id, player_name, line))

\* delete_match(record_id, user)
delete_match_by_id(table, record_id, user) ==
    LET Keep(r) == r.id # record_id
    IN  SelectSeq(table, Keep)
delete_match_owned(table, record_id, user) ==
    LET Keep(r) == ~(r.id = record_id /\ r.user_id = user.id)
    IN  SelectSeq(table, Keep)
delete_match(table, record_id, user) ==
    IF user.role = "player"
    THEN LET Keep(r) == ~(r.id = record_id /\ r.user_id = user.id)
         IN  SelectSeq(table, Keep)
    ELSE LET Keep(r) == r.id # record_id
         IN  SelectSeq(table, Keep)

\* ORDER BY id DESC
RECURSIVE OrderByIdDesc(_)
OrderByIdDesc(rows) ==
    IF rows = {} THEN <<>>
    ELSE LET top == CHOOSE r \in rows : \A q \in rows : q.id <= r.id
         IN  <<top>> \o OrderByIdDesc(rows \ {top})

\* fetch_matches_by_user(username)
fetch_matches_by_user(table, username) ==
    OrderByIdDesc({r \in Range(table) : r.player_name = username})

\* fetch_all_matches()
fetch_all_matches(table) == OrderByIdDesc(Range(table))

-----------------------------------------------------------------------------
(* Match form and delete form *)

\* the player name a submission carries: the text input (preset to the
\* username and disabled for a player), overridden for a player on submit
SubmittedPlayerNameTyped(user, typed) == typed
SubmittedPlayerName(user, typed) ==
    LET is_player == user.role = "player"
        player_name == IF is_player THEN user.username ELSE typed
    IN  IF is_player THEN user.username ELSE player_name

\* "if not acs or kills is None or deaths is None or assists is None":
\* number_input always yields a number, so only acs = 0 is falsy
MissingStat(line) == line.acs = 0

\* the Add Match button
MatchFormSubmit(s) ==
    /\ Idle(s)
    /\ session[s].user # NoUser
    /\ \E typed \in AdminNames, line \in StatLines :
         LET user == session[s].user
             player_name == SubmittedPlayerName(user, typed)
             name_error == player_name = ""
         IN  IF MissingStat(line)
             THEN /\ UNCHANGED <<matches, next_match_id>>
                  /\ last' = [op |-> "submit", s |-> s, user |-> user,
                              player_name |-> player_name, line |-> line,
                              name_error |-> name_error, added |-> FALSE,
                              id |-> 0, before |-> matches]
             ELSE /\ next_match_id <= MaxMatches
                  /\ matches' = add_match(matches, next_match_id, user.id,
                                          player_name, line)
                  /\ next_match_id' = next_match_id + 1
                  /\ last' = [op |-> "submit", s |-> s, user |-> user,
                              player_name |-> player_name, line |-> line,
                              name_error |-> name_error, added |-> TRUE,
                              id |-> next_match_id, before |-> matches]
    /\ UNCHANGED <<users, next_user_id, session, data, aggregated, ranked, board_pc>>

\* the option shown for a row:
\* f"{player_name} | {map_name} | {agent} | {current_rank} | {kills}/{deaths}"
RecordOption(r) ==
    <<r.player_name, r.map_name, r.agent, r.current_rank, r.kills, r.deaths>>

\* int(text): the number a string of digits denotes; anything else raises
IsInt(text) == text \in {"1", "2"}
IntOf(text) == IF text = "1" THEN 1 ELSE 2

OwnerOf(table, record_id) ==
    IF \E r \in Range(table) : r.id = record_id
    THEN (CHOOSE r \in Range(table) : r.id = record_id).user_id
    ELSE 0

\* the Delete Record button: record_id = int(record_to_delete.split(" | ")[0])
DeleteFormSubmit(s) ==
    /\ Idle(s)
    /\ session[s].user # NoUser
    /\ LET user == session[s].user
           match_data == IF user.role = "player"
                         THEN fetch_matches_by_user(matches, user.username)
                         ELSE fetch_all_matches(matches)
       IN  /\ match_data # <<>>
           /\ \E i \in DOMAIN match_data :
                LET record_to_delete == RecordOption(match_data[i])
                    first == record_to_delete[1]
                IN  IF IsInt(first)
                    THEN /\ matches' = delete_match(matches, IntOf(first), user)
                         /\ last' = [op |-> "delete", s |-> s, user |-> user,
                                     selected |-> match_data[i].id,
                                     before |-> matches,
                                     record_id |-> IntOf(first),
                                     owner |-> OwnerOf(matches, IntOf(first)),
                                     msg |-> "Record deleted successfully!"]
                    ELSE /\ UNCHANGED matches
                         /\ last' = [op |-> "delete", s |-> s, user |-> user,
                                     selected |-> match_data[i].id,
                                     before |-> matches,
                                     record_id |-> 0, owner |-> 0,
                                     msg |-> "ValueError"]
    /\ UNCHANGED <<users, next_user_id, next_match_id, session,
                   data, aggregated, ranked, board_pc>>

\* the accounts the match specification starts from: create_admin.py run
\* once, then two registrations
MatchUsers ==
    << [id |-> 1, username |-> "root", password_hash |-> hashpw("pw", 1), role |-> "admin"],
       [id |-> 2, username |-> "2", password_hash |-> hashpw("pw", 2), role |-> "player"],
       [id |-> 3, username |-> "1", password_hash |-> hashpw("pw2", 1), role |-> "player"] >>

Init ==
    /\ users = MatchUsers
    /\ next_user_id = Len(MatchUsers) + 1
    /\ matches = <<>>
    /\ next_match_id = 1
    /\ session = [s \in Sessions |-> NoSession]
    /\ last = [op |-> "start"]
    /\ data = <<>>
    /\ aggregated = <<>>
    /\ ranked = <<>>
    /\ board_pc = "idle"

Next ==
    \/ \E s \in Sessions : Login(s)
    \/ \E s \in Sessions : Logout(s)
    \/ \E s \in Sessions : MatchFormSubmit(s)
    \/ \E s \in Sessions : DeleteFormSubmit(s)

Spec == Init /\ [][Next]_vars

-----------------------------------------------------------------------------
(* Aggregation engine *)

\* calculate_kd_ratio(kills, deaths), as an exact fraction <<num, den>>
calculate_kd_ratio(kills, deaths) ==
    IF deaths = 0 THEN <<kills, 1>> ELSE <<kills, deaths>>

\* the order of Python strings over the names of the model
NameKey(name) ==
    CASE name = ""     -> 0
      [] name = "1"    -> 1
      [] name = "2"    -> 2
      [] name = "neo"  -> 3
      [] OTHER         -> 4

\* round(2) of num / den, in hundredths: numpy rounds half to even
Round2(num, den) ==
    LET q == (100 * num) \div den
        r == (100 * num) % den
    IN  IF 2 * r < den THEN q
        ELSE IF 2 * r > den THEN q + 1
        ELSE IF q % 2 = 0 THEN q ELSE q + 1

\* "sum" of one column over the rows of a group
RECURSIVE ColumnSumSkipFirst(_, _)
ColumnSumSkipFirst(rows, column) ==
    IF Len(rows) <= 1 THEN 0
    ELSE rows[Len(rows)][column] + ColumnSumSkipFirst(SubSeq(rows, 1, Len(rows) - 1), column)
RECURSIVE ColumnSum(_, _)
ColumnSum(rows, column) ==
    IF rows = <<>> THEN 0
    ELSE rows[1][column] + ColumnSum(Tail(rows), column)

\* "count" of column win_loss: the rows of the group whose win_loss is set
ColumnCount(rows) ==
    LET IsSet(r) == r.win_loss \in {"Win", "Loss"}
    IN  Len(SelectSeq(rows, IsSet))

\* the sum of the rows' K/D ratios as one fraction <<num, den>>
RECURSIVE KdSum(_)
KdSum(rows) ==
    IF rows = <<>> THEN <<0, 1>>
    ELSE LET kd == calculate_kd_ratio(rows[1].kills, rows[1].deaths)
             rest == KdSum(Tail(rows))
         IN  <<kd[1] * rest[2] + rest[1] * kd[2], kd[2] * rest[2]>>

\* the group keys of groupby("player_name"), sorted
RECURSIVE SortedNames(_)
SortedNames(names) ==
    IF names = {} THEN <<>>
    ELSE LET first == CHOOSE n \in names : \A m \in names : NameKey(n) <= NameKey(m)
         IN  <<first>> \o SortedNames(names \ {first})

\* the rows of one group, in the order of the input
GroupRows(rows, name) ==
    LET InGroup(r) == r.player_name = name
    IN  SelectSeq(rows, InGroup)

\* one row of the aggregated frame; the averages are in hundredths
AggregateRow(rows, name) ==
    LET group == GroupRows(rows, name)
        n == Len(group)
        kd == KdSum(group)
    IN  [player_name |-> name,
         avg_acs |-> Round2(ColumnSum(group, "acs"), n),
         avg_econ_rating |-> Round2(ColumnSum(group, "econ_rating"), n),
         kills |-> ColumnSum(group, "kills"),
         deaths |-> ColumnSum(group, "deaths"),
         assists |-> ColumnSum(group, "assists"),
         kd_ratio |-> Round2(kd[1], kd[2] * n),
         matches_played |-> ColumnCount(group)]

\* aggregate_player_stats(data); <<>> is the empty DataFrame
aggregate_player_stats(rows) ==
    IF rows = <<>> THEN <<>>
    ELSE LET names == SortedNames({rows[i].player_name : i \in DOMAIN rows})
         IN  [k \in DOMAIN names |-> AggregateRow(rows, names[k])]

Arrangements(n) ==
    {p \in [1..n -> 1..n] : \A i, j \in 1..n : p[i] = p[j] => i = j}

\* rank_players(aggregated_df): sort_values(by="avg_acs", ascending=False)
\* with pandas' default kind="quicksort", which is not a stable sort: every
\* descending arrangement of the rows is a possible result; then
\* reset_index(drop=True) numbers the rows from 0 and "index += 1" shifts
\* the numbers to start at 1
rank_players_ascending(frame) ==
    {[i \in DOMAIN frame |-> [rank |-> (i - 1) + 1, stats |-> frame[p[i]]]] :
        p \in {q \in Arrangements(Len(frame)) :
                 \A i, j \in DOMAIN frame :
                    i < j => frame[q[i]].avg_acs <= frame[q[j]].avg_acs}}
rank_players(frame) ==
    {[i \in DOMAIN frame |-> [rank |-> (i - 1) + 1, stats |-> frame[p[i]]]] :
        p \in {q \in Arrangements(Len(frame)) :
                 \A i, j \in DOMAIN frame :
                    i < j => frame[q[i]].avg_acs >= frame[q[j]].avg_acs}}

-----------------------------------------------------------------------------
(* Leaderboard section of the page *)

BoardNames == {"1", "2", "neo"}

\* stat lines of stored rows: acs = 0 never passes the match form
BoardLines == {line \in StatLines : ~MissingStat(line)}
    \cup { [win_loss |-> "Win", map_name |-> "Pearl", agent |-> "Iso",
            current_rank |-> "Radiant", acs |-> 275, econ_rating |-> 70,
            kills |-> 7, deaths |-> 3, assists |-> 2] }

\* what fetch_all_matches() can return with n rows stored: ids descending
FetchedRows(n) ==
    {[i \in 1..n |-> MatchRow(n + 1 - i, 1, c[i][1], c[i][2])] :
        c \in [1..n -> BoardNames \X BoardLines]}

InitBoard ==
    /\ users = <<>>
    /\ next_user_id = 1
    /\ matches = <<>>
    /\ next_match_id = 1
    /\ session = [s \in Sessions |-> NoSession]
    /\ last = [op |-> "start"]
    /\ data \in UNION {FetchedRows(n) : n \in 0..MaxRecords}
    /\ aggregated = <<>>
    /\ ranked = <<>>
    /\ board_pc = "fetched"

\* "if all_match_data: aggregated_df = aggregate_player_stats(all_match_data)"
Aggregate ==
    /\ board_pc = "fetched"
    /\ data # <<>>
    /\ aggregated' = aggregate_player_stats(data)
    /\ board_pc' = "aggregated"
    /\ UNCHANGED <<users, next_user_id, matches, next_match_id, session, last,
                   data, ranked>>

\* "else: st.info('No leaderboard data available.')"
NoData ==
    /\ board_pc = "fetched"
    /\ data = <<>>
    /\ board_pc' = "no_data"
    /\ UNCHANGED <<users, next_user_id, matches, next_match_id, session, last,
                   data, aggregated, ranked>>

\* "if not aggregated_df.empty: ranked_df = rank_players(aggregated_df)"
Rank ==
    /\ board_pc = "aggregated"
    /\ aggregated # <<>>
    /\ ranked' \in rank_players(aggregated)
    /\ board_pc' = "ranked"
    /\ UNCHANGED <<users, next_user_id, matches, next_match_id, session, last,
                   data, aggregated>>

NextBoard == Aggregate \/ NoData \/ Rank

SpecBoard == InitBoard /\ [][NextBoard]_vars

-----------------------------------------------------------------------------
(* Properties of the match repository, under Spec *)

Players == {u \in Range(users) : u.role = "player"}
Admins == {u \in Range(users) : u.role = "admin"}

\* C1: for every reachable matches table, every player and every record
\* owned by a different user, deleteMatch(id, player) deletes nothing: the
\* table after the call equals the table before it; so does every such call
\* the delete form makes
C1_PlayerDeleteOfForeignRecordIsNoOp ==
    /\ \A u \in Players : \A r \in Range(matches) :
          r.user_id # u.id => delete_match(matches, r.id, u) = matches
    /\ (/\ last.op = "delete"
        /\ last.user.role = "player"
        /\ last.owner \notin {0, last.user.id}) => matches = last.before

\* a player's delete form has called delete_match with the id of a record
\* owned by somebody else, and the record is still there
C1_Witness ==
    /\ last.op = "delete"
    /\ last.user.role = "player"
    /\ last.owner \notin {0, last.user.id}
    /\ \E r \in Range(matches) : r.id = last.record_id /\ r.user_id = last.owner

\* C2: for every admin and every record id present in the matches table,
\* deleteMatch(id, admin) removes the row with that id whoever owns it and
\* leaves every other row unchanged; so does every such call the delete
\* form makes
C2_AdminDeletesAnyRecordById ==
    /\ \A u \in Admins : \A r \in Range(matches) :
          LET after == delete_match(matches, r.id, u)
          IN  /\ r \notin Range(after)
              /\ Range(after) = Range(matches) \ {r}
              /\ Len(after) = Len(matches) - 1
    /\ (/\ last.op = "delete"
        /\ last.user.role = "admin"
        /\ last.owner # 0) =>
          /\ \A r \in Range(matches) : r.id # last.record_id
          /\ Range(matches) = {r \in Range(last.before) : r.id # last.record_id}
          /\ Len(matches) = Len(last.before) - 1

\* an admin's delete form has removed a record owned by another user and
\* left another record in place
C2_Witness ==
    /\ last.op = "delete"
    /\ last.user.role = "admin"
    /\ last.owner \notin {0, last.user.id}
    /\ matches # <<>>
    /\ Len(matches) = Len(last.before) - 1

\* C5: a submission whose player name is empty is rejected before any
\* write: add_match is not called and the matches table is unchanged
C5_EmptyNameIsRejectedBeforeWrite ==
    (last.op = "submit" /\ last.player_name = "") =>
        /\ ~last.added
        /\ matches = last.before

\* C8: every match record whose user_id is a player's id carries that
\* player's username as player_name
C8_PlayerRecordsCarryOwnUsername ==
    \A u \in Players : \A r \in Range(matches) :
        r.user_id = u.id => r.player_name = u.username

\* a player has submitted a record, and an admin one under a name that is
\* not the admin's own
C8_Witness ==
    /\ \E u \in Players : \E r \in Range(matches) : r.user_id = u.id
    /\ \E u \in Admins : \E r \in Range(matches) :
          r.user_id = u.id /\ r.player_name # u.username

\* C9: a submission with a non-empty player name and any non-negative
\* stats, acs = 0 included, is accepted: it inserts one row carrying the
\* submitted values and the logged-in user's id
C9_NonNegativeStatsAreAccepted ==
    (last.op = "submit" /\ last.player_name # "") =>
        /\ last.added
        /\ \E i \in DOMAIN matches :
              matches[i] = MatchRow(last.id, last.user.id, last.player_name, last.line)

\* C10: every record a player is offered for deletion, that is every row of
\* fetch_matches_by_user(username), is removed by delete_match(id, player)
C10_PlayerCanDeleteEveryListedRecord ==
    \A u \in Players :
        LET listed == fetch_matches_by_user(matches, u.username)
        IN  \A i \in DOMAIN listed :
               listed[i] \notin Range(delete_match(matches, listed[i].id, u))

-----------------------------------------------------------------------------
(* Properties of registration and login, under SpecAuth *)

C4_LoginFailuresAreIdentical ==
    last.op = "login" =>
        LET matching == {u \in Range(users) :
                           /\ u.username = last.username
                           /\ verify_password(last.password, u.password_hash)}
        IN  /\ last.result # NoUser =>
                 /\ last.result \in matching
                 /\ session[last.s].user = last.result
            /\ matching = {} =>
                 /\ last.result = NoUser
                 /\ last.msg = "Invalid username or password."
                 /\ session[last.s].user = NoUser

\* a login with the username of an existing account and a wrong password
\* has failed
C4_Witness ==
    /\ last.op = "login"
    /\ last.result = NoUser
    /\ \E u \in Range(users) :
          /\ u.username = last.username
          /\ ~verify_password(last.password, u.password_hash)
    /\ last.msg = "Invalid username or password."

-----------------------------------------------------------------------------
(* Properties of the aggregation engine, under SpecBoard *)

RowsOf(name) == {i \in DOMAIN data : data[i].player_name = name}

\* the sum of one column over a set of positions of data
RECURSIVE TotalOver(_, _)
TotalOver(positions, column) ==
    IF positions = {} THEN 0
    ELSE LET i == CHOOSE k \in positions : TRUE
         IN  data[i][column] + TotalOver(positions \ {i}, column)

\* C7: aggregate returns exactly one entry per distinct player_name of the
\* input, whose matches_played is the number of input records with that
\* name and whose kills, deaths and assists are the sums over exactly those
\* records; for the empty list it returns an empty result
C7_AggregateCountsAndSums ==
    LET result == aggregate_player_stats(data)
        names == {data[i].player_name : i \in DOMAIN data}
    IN  /\ aggregate_player_stats(<<>>) = <<>>
        /\ data = <<>> => result = <<>>
        /\ {result[k].player_name : k \in DOMAIN result} = names
        /\ Len(result) = Cardinality(names)
        /\ \A k \in DOMAIN result :
              LET positions == RowsOf(result[k].player_name)
              IN  /\ result[k].matches_played = Cardinality(positions)
                  /\ result[k].kills = TotalOver(positions, "kills")
                  /\ result[k].deaths = TotalOver(positions, "deaths")
                  /\ result[k].assists = TotalOver(positions, "assists")
        /\ board_pc \in {"aggregated", "ranked"} => aggregated = result

\* the page has aggregated an input holding several players, one of them
\* with several records
C7_Witness ==
    /\ board_pc = "aggregated"
    /\ Len(aggregated) >= 2
    /\ \E k \in DOMAIN aggregated : aggregated[k].matches_played >= 2

\* ranked is aggregated rearranged by p, numbered 1..N
RankedBy(p) ==
    /\ Len(ranked) = Len(aggregated)
    /\ \A i \in DOMAIN ranked :
          /\ ranked[i].stats = aggregated[p[i]]
          /\ ranked[i].rank = i

=============================================================================
